---- MODULE Spec2Model ----
(***************************************************************************)
(* A model of cannoli's compiler front end: scope gathering and lookup     *)
(* (src/compiler/util.rs) and the lowering of a module into the CFG of the *)
(* synthetic function main (src/compiler/mod.rs).                          *)
(*                                                                         *)
(* Every Rust function is an operator of the same name, computed the way   *)
(* the function computes it.  A call that ends in unimplemented!() has the *)
(* status "Panic"; a Result is "Ok" or "Err".                              *)
(***************************************************************************)
EXTENDS Integers, Sequences, FiniteSets

VARIABLES
    gs_stmts,       \* gather_scope: argument stmts
    gs_start_ndx,   \* gather_scope: argument start_ndx
    gs_is_class,    \* gather_scope: argument is_class
    gs_result,      \* gather_scope: what the call produced ("none" before it)
    lv_scope,       \* lookup_value: argument scope, outermost mapping first
    lv_id,          \* lookup_value: argument id
    lv_result,      \* lookup_value: what the call produced
    fp_file,        \* get_file_prefix: argument file, a sequence of characters
    fp_result,      \* get_file_prefix: what the call produced
    c_ast,          \* compile: the body of the module
    imm_inst,       \* whether gen_imm_num materialises literals in this build
    pc,             \* compile: position of the call
    gm_ndx,         \* gather_main: index of the next statement of the loop
    gm_cfg,         \* gather_main: local cfg
    gm_cur_block,   \* gather_main: local cur_block
    c_funcs,        \* compile: local funcs
    c_main,         \* compile: local main
    c_program       \* compile: the returned Program

vars == <<gs_stmts, gs_start_ndx, gs_is_class, gs_result, lv_scope, lv_id,
          lv_result, fp_file, fp_result, c_ast, imm_inst, pc, gm_ndx, gm_cfg,
          gm_cur_block, c_funcs, c_main, c_program>>

scopeVars == <<gs_stmts, gs_start_ndx, gs_is_class, gs_result>>
lookupVars == <<lv_scope, lv_id, lv_result>>
fileVars == <<fp_file, fp_result>>
compileVars == <<c_ast, imm_inst, pc, gm_ndx, gm_cfg, gm_cur_block, c_funcs,
                 c_main, c_program>>

(***************************************************************************)
(* Bounds of the model.                                                    *)
(***************************************************************************)
MaxStmts == 2       \* statements in the list handed to gather_scope
MaxStart == 1       \* largest start_ndx
MaxScopes == 3      \* mappings in a scope stack
MaxSlot == 1        \* largest slot of a mapping in a scope stack
MaxLen == 6         \* characters in a file path
MaxBody == 2        \* top-level statements of a compiled module

RECURSIVE SeqsUpTo(_, _)
SeqsUpTo(S, n) ==
    IF n = 0 THEN {<<>>}
    ELSE LET shorter == SeqsUpTo(S, n - 1)
         IN  shorter \cup {Append(q, x) : q \in {r \in shorter : Len(r) = n - 1}, x \in S}

None == [kind |-> "None"]
Some(x) == [kind |-> "Some", some |-> x]

(***************************************************************************)
(* The AST (parser::ast), as far as the compiler matches on it.            *)
(***************************************************************************)
Name(ident) == [kind |-> "Name", id |-> ident]
Attribute(value, attr) == [kind |-> "Attribute", value |-> value, attr |-> attr]
List(elts) == [kind |-> "List", elts |-> elts]
Tuple(elts) == [kind |-> "Tuple", elts |-> elts]
Num(n) == [kind |-> "Num", n |-> n]
BinOp(left, op, right) == [kind |-> "BinOp", left |-> left, op |-> op, right |-> right]
Subscript == [kind |-> "Subscript"]

Alias(name, asname) == [name |-> name, asname |-> asname]

FunctionDef(name, args, stmtList) ==
    [kind |-> "FunctionDef", name |-> name, args |-> args, body |-> stmtList]
ClassDef(name, stmtList) == [kind |-> "ClassDef", name |-> name, body |-> stmtList]
Assign(targets) == [kind |-> "Assign", targets |-> targets]
For(target, stmtList, orelse) ==
    [kind |-> "For", target |-> target, body |-> stmtList, orelse |-> orelse]
While(stmtList, orelse) == [kind |-> "While", body |-> stmtList, orelse |-> orelse]
If(stmtList, orelse) == [kind |-> "If", body |-> stmtList, orelse |-> orelse]
Import(names) == [kind |-> "Import", names |-> names]
ImportFrom == [kind |-> "ImportFrom"]
Expr(value) == [kind |-> "Expr", value |-> value]
Pass == [kind |-> "Pass"]

(***************************************************************************)
(* util.rs: scope gathering.  A gathering result is the status of the call *)
(* and the HashSet it has filled.                                          *)
(***************************************************************************)
Ok(scope) == [status |-> "Ok", scope |-> scope]
Panic == [status |-> "Panic", scope |-> {}]

RECURSIVE unpack_assign_targets(_, _)
RECURSIVE unpack_assign_targets_elts(_, _, _)

\* the loop `for elt in elts.iter() { unpack_assign_targets(scope, elt)?; }`
unpack_assign_targets_elts(scope, elts, i) ==
    IF i > Len(elts) THEN Ok(scope)
    ELSE LET r == unpack_assign_targets(scope, elts[i])
         IN  IF r.status # "Ok" THEN r
             ELSE unpack_assign_targets_elts(r.scope, elts, i + 1)

unpack_assign_targets(scope, target) ==
    CASE target.kind = "Name" -> Ok(scope \cup {target.id})
      [] target.kind = "List" -> Panic
      [] target.kind = "Tuple" -> unpack_assign_targets_elts(scope, target.elts, 1)
      [] OTHER -> Ok(scope)

RECURSIVE unpack_assign_alias(_, _, _)
RECURSIVE unpack_assign_alias_elts(_, _, _, _)

unpack_assign_alias_elts(scope, elts, alias, i) ==
    IF i > Len(elts) THEN Ok(scope)
    ELSE LET r == unpack_assign_alias(scope, elts[i], alias)
         IN  IF r.status # "Ok" THEN r
             ELSE unpack_assign_alias_elts(r.scope, elts, alias, i + 1)

unpack_assign_alias(scope, target, alias) ==
    CASE target.kind = "Attribute" ->
            IF target.value.kind # "Name" THEN Ok(scope)
            ELSE IF target.value.id = alias THEN Ok(scope \cup {target.attr})
            ELSE Ok(scope)
      [] target.kind = "List" -> Panic
      [] target.kind = "Tuple" ->
            unpack_assign_alias_elts(scope, target.elts, alias, 1)
      [] OTHER -> Ok(scope)

RECURSIVE rec_gather_class_init(_, _, _)
RECURSIVE rec_gather_class_init_from(_, _, _, _)
RECURSIVE rec_gather_class_init_targets(_, _, _, _)

\* the loop `for target in targets.iter() { unpack_assign_alias(..)?; }`
rec_gather_class_init_targets(scope, targets, self_alias, i) ==
    IF i > Len(targets) THEN Ok(scope)
    ELSE LET r == unpack_assign_alias(scope, targets[i], self_alias)
         IN  IF r.status # "Ok" THEN r
             ELSE rec_gather_class_init_targets(r.scope, targets, self_alias, i + 1)

\* one iteration of `for stmt in stmts.iter()`: the match on *stmt
rec_gather_class_init_stmt(scope, stmt, self_alias) ==
    CASE stmt.kind = "Assign" ->
            rec_gather_class_init_targets(scope, stmt.targets, self_alias, 1)
      [] stmt.kind \in {"For", "While", "If"} ->
            LET r == rec_gather_class_init(scope, stmt.body, self_alias)
            IN  IF r.status # "Ok" THEN r
                ELSE rec_gather_class_init(r.scope, stmt.orelse, self_alias)
      [] OTHER -> Ok(scope)

rec_gather_class_init_from(scope, stmts, self_alias, i) ==
    IF i > Len(stmts) THEN Ok(scope)
    ELSE LET r == rec_gather_class_init_stmt(scope, stmts[i], self_alias)
         IN  IF r.status # "Ok" THEN r
             ELSE rec_gather_class_init_from(r.scope, stmts, self_alias, i + 1)

rec_gather_class_init(scope, stmts, self_alias) ==
    rec_gather_class_init_from(scope, stmts, self_alias, 1)

\* gather_class_init taking the last positional parameter for the self alias
gather_class_init_last_param(scope, func) ==
    IF func.name # "__init__" THEN Panic
    ELSE IF Len(func.args) > 0
         THEN rec_gather_class_init(scope, func.body, func.args[Len(func.args)])
         ELSE Ok(scope)

gather_class_init(scope, func) ==
    IF func.name # "__init__" THEN Panic
    ELSE IF Len(func.args) > 0
         THEN rec_gather_class_init(scope, func.body, func.args[1])
         ELSE Ok(scope)

RECURSIVE rec_gather_scope(_, _, _)
RECURSIVE rec_gather_scope_from(_, _, _, _)
RECURSIVE rec_gather_scope_targets(_, _, _)
RECURSIVE rec_gather_scope_names(_, _, _)

\* the loop `for target in targets.iter() { unpack_assign_targets(..)?; }`
rec_gather_scope_targets(scope, targets, i) ==
    IF i > Len(targets) THEN Ok(scope)
    ELSE LET r == unpack_assign_targets(scope, targets[i])
         IN  IF r.status # "Ok" THEN r
             ELSE rec_gather_scope_targets(r.scope, targets, i + 1)

\* the loop `for name in names.iter()` of the Import arm
rec_gather_scope_names(scope, names, i) ==
    IF i > Len(names) THEN Ok(scope)
    ELSE LET alias == IF names[i].asname.kind = "Some" THEN names[i].asname.some
                      ELSE names[i].name
         IN  rec_gather_scope_names(scope \cup {alias}, names, i + 1)

\* the arms For, While and If: body, then orelse
rec_gather_scope_blocks(scope, stmt, is_class) ==
    LET r == rec_gather_scope(scope, stmt.body, is_class)
    IN  IF r.status # "Ok" THEN r
        ELSE rec_gather_scope(r.scope, stmt.orelse, is_class)

\* one iteration of `for stmt in stmts.iter()`: the match on *stmt
rec_gather_scope_stmt(scope, stmt, is_class) ==
    CASE stmt.kind = "FunctionDef" ->
            IF is_class /\ stmt.name = "__init__"
            THEN gather_class_init(scope \cup {stmt.name}, stmt)
            ELSE Ok(scope \cup {stmt.name})
      [] stmt.kind = "ClassDef" -> Ok(scope \cup {stmt.name})
      [] stmt.kind = "Assign" -> rec_gather_scope_targets(scope, stmt.targets, 1)
      [] stmt.kind = "For" ->
            LET r == unpack_assign_targets(scope, stmt.target)
            IN  IF r.status # "Ok" THEN r
                ELSE rec_gather_scope_blocks(r.scope, stmt, is_class)
      [] stmt.kind \in {"While", "If"} -> rec_gather_scope_blocks(scope, stmt, is_class)
      [] stmt.kind = "Import" -> rec_gather_scope_names(scope, stmt.names, 1)
      [] stmt.kind = "ImportFrom" -> Panic
      [] OTHER -> Ok(scope)

rec_gather_scope_from(scope, stmts, is_class, i) ==
    IF i > Len(stmts) THEN Ok(scope)
    ELSE LET r == rec_gather_scope_stmt(scope, stmts[i], is_class)
         IN  IF r.status # "Ok" THEN r
             ELSE rec_gather_scope_from(r.scope, stmts, is_class, i + 1)

rec_gather_scope(scope, stmts, is_class) == rec_gather_scope_from(scope, stmts, is_class, 1)

\* The orders in which a HashSet may hand out its elements: every one.
IterOrders(set) ==
    {o \in [1..Cardinality(set) -> set] : \A i, j \in DOMAIN o : o[i] = o[j] => i = j}

\* (start_ndx..end_ndx).zip(order).for_each(|(ndx, key)| scope_map.insert(key, ndx))
ZipInsert(start_ndx, end_ndx, order) ==
    LET n == IF end_ndx - start_ndx < Len(order)
             THEN (IF end_ndx > start_ndx THEN end_ndx - start_ndx ELSE 0)
             ELSE Len(order)
    IN  [key \in {order[i] : i \in 1..n} |->
            start_ndx + (CHOOSE i \in 1..n : order[i] = key) - 1]

\* gather_scope with end_ndx one short
gather_scope_short_range(stmts, start_ndx, is_class) ==
    LET r == rec_gather_scope({}, stmts, is_class)
    IN  IF r.status # "Ok" THEN {[status |-> r.status, scope_map |-> <<>>]}
        ELSE LET end_ndx == start_ndx + Cardinality(r.scope) - 1
             IN  {[status |-> "Ok", scope_map |-> ZipInsert(start_ndx, end_ndx, o)] :
                    o \in IterOrders(r.scope)}

\* What gather_scope may return: one mapping for each iteration order of
\* scope_set.
gather_scope(stmts, start_ndx, is_class) ==
    LET r == rec_gather_scope({}, stmts, is_class)
    IN  IF r.status # "Ok" THEN {[status |-> r.status, scope_map |-> <<>>]}
        ELSE LET end_ndx == start_ndx + Cardinality(r.scope)
             IN  {[status |-> "Ok", scope_map |-> ZipInsert(start_ndx, end_ndx, o)] :
                    o \in IterOrders(r.scope)}

(***************************************************************************)
(* The calls of gather_scope that are explored: statement lists of up to   *)
(* MaxStmts statements of ScopePool.  The pool binds the identifiers a, b, *)
(* c and __init__; s is the self alias and t another base.                 *)
(***************************************************************************)
SelfC == Attribute(Name("s"), "c")
SelfA == Attribute(Name("s"), "a")
OtherB == Attribute(Name("t"), "b")
DeepB == Attribute(Attribute(Name("s"), "c"), "b")
ListC == List(<<Name("c")>>)

InitBodies ==
    { <<Assign(<<SelfC>>), Assign(<<Name("b")>>)>>,
      <<If(<<Assign(<<Tuple(<<SelfA, Tuple(<<OtherB, SelfC>>)>>)>>)>>,
           <<While(<<Assign(<<DeepB, Subscript>>)>>, <<Assign(<<SelfC>>)>>)>>),
        For(SelfA, <<Assign(<<OtherB>>)>>, <<Assign(<<Attribute(Name("s"), "b")>>)>>)>>,
      <<FunctionDef("a", <<"s">>, <<Assign(<<SelfC>>)>>), Assign(<<SelfA>>)>>,
      <<Assign(<<SelfA>>), Assign(<<Tuple(<<SelfC, ListC>>)>>)>> }

InitDefs ==
    {FunctionDef("__init__", <<"s", "b">>, b) : b \in InitBodies}
    \cup { FunctionDef("__init__", <<>>, <<Assign(<<SelfC>>)>>),
           FunctionDef("__init__", <<"t">>, <<Assign(<<SelfC, OtherB>>)>>) }

ScopePool ==
    { Assign(<<Name("a")>>),
      Assign(<<Name("a"), Name("b")>>),
      Assign(<<Tuple(<<Name("b"), Tuple(<<Name("c"), SelfA>>)>>)>>),
      Assign(<<SelfC>>),
      Assign(<<ListC>>),
      Assign(<<Tuple(<<Name("a"), ListC>>)>>),
      Import(<<Alias("a", None), Alias("b", Some("c"))>>),
      ImportFrom,
      Pass,
      FunctionDef("a", <<"b">>, <<Assign(<<Name("c")>>)>>),
      ClassDef("b", <<Assign(<<Name("c")>>)>>),
      For(Name("b"), <<Assign(<<Name("a")>>)>>, <<Assign(<<Name("c")>>)>>),
      For(Tuple(<<Name("a"), Name("c")>>), <<>>, <<>>),
      For(ListC, <<>>, <<>>),
      While(<<If(<<Assign(<<Name("c")>>)>>, <<Import(<<Alias("b", None)>>)>>)>>, <<>>),
      While(<<>>, <<ImportFrom>>),
      If(<<>>, <<Assign(<<Tuple(<<Name("b"), ListC>>)>>)>>),
      If(<<FunctionDef("__init__", <<"s">>, <<Assign(<<SelfA>>)>>)>>, <<>>) }
    \cup InitDefs

NoResult == [status |-> "none"]

ScopeIdle ==
    /\ gs_stmts = <<>>
    /\ gs_start_ndx = 0
    /\ gs_is_class = FALSE
    /\ gs_result = NoResult

LookupIdle ==
    /\ lv_scope = <<>>
    /\ lv_id = ""
    /\ lv_result = NoResult

FileIdle ==
    /\ fp_file = <<>>
    /\ fp_result = NoResult

CompileIdle ==
    /\ c_ast = <<>>
    /\ imm_inst = FALSE
    /\ pc = "idle"
    /\ gm_ndx = 0
    /\ gm_cfg = None
    /\ gm_cur_block = ""
    /\ c_funcs = <<>>
    /\ c_main = None
    /\ c_program = None

InitScope ==
    /\ gs_stmts \in SeqsUpTo(ScopePool, MaxStmts)
    /\ gs_start_ndx \in 0..MaxStart
    /\ gs_is_class \in BOOLEAN
    /\ gs_result = NoResult
    /\ LookupIdle
    /\ FileIdle
    /\ CompileIdle

\* a call gather_scope(gs_stmts, gs_start_ndx, gs_is_class)
GatherScope ==
    /\ gs_result = NoResult
    /\ gs_result' \in gather_scope(gs_stmts, gs_start_ndx, gs_is_class)
    /\ UNCHANGED <<gs_stmts, gs_start_ndx, gs_is_class>>
    /\ UNCHANGED <<lookupVars, fileVars, compileVars>>

NextScope == GatherScope

SpecScope == InitScope /\ [][NextScope]_vars

(***************************************************************************)
(* What a statement list binds, read off the syntax: the statements of the *)
(* scanned level are those of the list and, recursively, of the bodies and *)
(* else-branches of its for, while and if statements.                      *)
(***************************************************************************)
RECURSIVE LevelStmts(_)
LevelStmts(ss) ==
    UNION { {ss[i]} \cup (IF ss[i].kind \in {"For", "While", "If"}
                          THEN LevelStmts(ss[i].body) \cup LevelStmts(ss[i].orelse)
                          ELSE {}) : i \in DOMAIN ss }

RECURSIVE TargetLeaves(_)
TargetLeaves(t) ==
    IF t.kind = "Tuple" THEN UNION {TargetLeaves(t.elts[i]) : i \in DOMAIN t.elts}
    ELSE {t}

AssignLeaves(ss) ==
    UNION {UNION {TargetLeaves(st.targets[i]) : i \in DOMAIN st.targets} :
             st \in {x \in LevelStmts(ss) : x.kind = "Assign"}}

ForLeaves(ss) ==
    UNION {TargetLeaves(st.target) : st \in {x \in LevelStmts(ss) : x.kind = "For"}}

ImportedNames(ss) ==
    UNION {{IF st.names[i].asname = None THEN st.names[i].name
            ELSE st.names[i].asname.some : i \in DOMAIN st.names} :
             st \in {x \in LevelStmts(ss) : x.kind = "Import"}}

BoundIds(ss) ==
    {st.name : st \in {x \in LevelStmts(ss) : x.kind \in {"FunctionDef", "ClassDef"}}}
    \cup {l.id : l \in {x \in AssignLeaves(ss) \cup ForLeaves(ss) : x.kind = "Name"}}
    \cup ImportedNames(ss)

HasListTarget(ss) == \E l \in AssignLeaves(ss) \cup ForLeaves(ss) : l.kind = "List"
HasImportFrom(ss) == \E st \in LevelStmts(ss) : st.kind = "ImportFrom"

\* the attributes assigned through the self alias in the body of a method
SelfAttrs(func) ==
    IF Len(func.args) = 0 THEN {}
    ELSE {l.attr : l \in {x \in AssignLeaves(func.body) :
                            /\ x.kind = "Attribute"
                            /\ x.value = Name(func.args[1])}}

ClassInitAttrs(ss) ==
    UNION {SelfAttrs(f) : f \in {x \in LevelStmts(ss) :
                                   x.kind = "FunctionDef" /\ x.name = "__init__"}}

ScopeDone == gs_result # NoResult
Slots(m) == {m[k] : k \in DOMAIN m}
Injective(m) == \A j, k \in DOMAIN m : m[j] = m[k] => j = k

\* C2: without list targets and import-from, gather_scope(stmts, start, false)
\* returns a bijection between the identifiers the level binds and the range
\* [start, start + count): one slot for each identifier, no slot skipped or
\* used twice.
C2_GatherScopeBijection ==
    (ScopeDone /\ ~gs_is_class /\ ~HasListTarget(gs_stmts) /\ ~HasImportFrom(gs_stmts))
    => /\ gs_result.status = "Ok"
       /\ DOMAIN gs_result.scope_map = BoundIds(gs_stmts)
       /\ Injective(gs_result.scope_map)
       /\ Slots(gs_result.scope_map) =
            gs_start_ndx .. (gs_start_ndx + Cardinality(BoundIds(gs_stmts)) - 1)

\* a call that bound three identifiers, one of them twice, from a start above 0
C2_Witness ==
    /\ ScopeDone /\ ~gs_is_class /\ gs_result.status = "Ok"
    /\ gs_start_ndx = 1
    /\ Len(gs_stmts) = 2
    /\ gs_stmts[1].kind = "For" /\ gs_stmts[2].kind = "FunctionDef"
    /\ DOMAIN gs_result.scope_map = {"a", "b", "c"}
    /\ gs_result.scope_map["c"] = 1

\* C4: with is_class, what the gathering of __init__ adds to the class scope is
\* exactly the attributes assigned through the first parameter in the method
\* body (through tuples and for/while/if); nothing without a parameter, and
\* nothing at all when is_class is false.
C4_ClassInitAttrs ==
    (ScopeDone /\ gs_result.status = "Ok")
    => DOMAIN gs_result.scope_map =
         BoundIds(gs_stmts) \cup (IF gs_is_class THEN ClassInitAttrs(gs_stmts) ELSE {})

\* __init__(s, b) with s.c = ..; b = ..: c is added, b and s are not
C4_Witness ==
    /\ ScopeDone /\ gs_is_class /\ gs_result.status = "Ok"
    /\ gs_stmts = <<FunctionDef("__init__", <<"s", "b">>,
                                <<Assign(<<SelfC>>), Assign(<<Name("b")>>)>>)>>
    /\ DOMAIN gs_result.scope_map = {"__init__", "c"}

\* C8: a list target or an import-from at the scanned level makes gather_scope
\* return an unsupported-construct error to its caller, with no mapping.
C8_UnsupportedReturnsErr ==
    (ScopeDone /\ (HasListTarget(gs_stmts) \/ HasImportFrom(gs_stmts)))
    => gs_result.status = "Err"

(***************************************************************************)
(* util.rs: lookup_value.                                                  *)
(***************************************************************************)
NameError(ident) == [error |-> "NameError", msg |-> ident]

RECURSIVE lookup_value_from(_, _, _)
\* `for (ndx, tbl) in scope.iter().enumerate().rev()`, from position ndx down;
\* ndx counts from 0 as in the Vec
lookup_value_from(scope, id, ndx) ==
    IF ndx < 0 THEN [status |-> "Err", err |-> NameError(id)]
    ELSE IF id \in DOMAIN scope[ndx + 1]
         THEN [status |-> "Ok", value |-> <<ndx, scope[ndx + 1][id]>>]
         ELSE lookup_value_from(scope, id, ndx - 1)

RECURSIVE lookup_value_forward(_, _, _)
\* the same loop without .rev(): the outermost mapping wins
lookup_value_forward(scope, id, ndx) ==
    IF ndx >= Len(scope) THEN [status |-> "Err", err |-> NameError(id)]
    ELSE IF id \in DOMAIN scope[ndx + 1]
         THEN [status |-> "Ok", value |-> <<ndx, scope[ndx + 1][id]>>]
         ELSE lookup_value_forward(scope, id, ndx + 1)

lookup_value_outermost(scope, id) == lookup_value_forward(scope, id, 0)

lookup_value(scope, id) == lookup_value_from(scope, id, Len(scope) - 1)

LookupIds == {"x", "y"}
Tables == UNION {[D -> 0..MaxSlot] : D \in SUBSET LookupIds}

InitLookup ==
    /\ lv_scope \in SeqsUpTo(Tables, MaxScopes)
    /\ lv_id \in {"x", "z"}
    /\ lv_result = NoResult
    /\ ScopeIdle
    /\ FileIdle
    /\ CompileIdle

\* a call lookup_value(&lv_scope, lv_id)
LookupValue ==
    /\ lv_result = NoResult
    /\ lv_result' = lookup_value(lv_scope, lv_id)
    /\ UNCHANGED <<lv_scope, lv_id>>
    /\ UNCHANGED <<scopeVars, fileVars, compileVars>>

NextLookup == LookupValue

SpecLookup == InitLookup /\ [][NextLookup]_vars

LookupDone == lv_result # NoResult
Holders == {d \in 0..(Len(lv_scope) - 1) : lv_id \in DOMAIN lv_scope[d + 1]}
Innermost == CHOOSE d \in Holders : \A e \in Holders : e <= d

\* C3: lookup_value returns (d, o), d the largest index of a mapping of the
\* stack that holds id and o the slot that mapping gives it; when no mapping
\* holds id it returns the NameError carrying id.
C3_LookupInnermost ==
    LookupDone
    => IF Holders = {}
       THEN lv_result = [status |-> "Err", err |-> NameError(lv_id)]
       ELSE lv_result = [status |-> "Ok",
                         value |-> <<Innermost, lv_scope[Innermost + 1][lv_id]>>]

\* x bound by the outer and by the inner mapping, to different slots
C3_Witness ==
    /\ LookupDone
    /\ Len(lv_scope) = 2
    /\ lv_id = "x"
    /\ Holders = {0, 1}
    /\ lv_scope[1]["x"] = 0
    /\ lv_scope[2]["x"] = 1
    /\ lv_result = [status |-> "Ok", value |-> <<1, 1>>]

(***************************************************************************)
(* util.rs: get_file_prefix.  A path is a sequence of characters.          *)
(***************************************************************************)
IOError(text) == [error |-> "IOError", msg |-> text]

\* `.` of the regex: any character but the line feed
DotRun(file, i, j) == \A k \in i..j : file[k] # "\n"

\* (.+)\.py$ from position b: the rest of the text, at least one character
\* and then .py
TailMatch(file, b) ==
    LET n == Len(file)
    IN  /\ b <= n - 3
        /\ DotRun(file, b, n - 3)
        /\ file[n - 2] = "." /\ file[n - 1] = "p" /\ file[n] = "y"

\* the ends of group 1, (.*/), for a match that starts at s
Group1Ends(file, s) ==
    {k \in s..Len(file) : file[k] = "/" /\ DotRun(file, s, k) /\ TailMatch(file, k + 1)}

MatchesAt(file, s) == Group1Ends(file, s) # {} \/ TailMatch(file, s)

\* FILENAME_RE.captures(file): the leftmost match; group 1 takes part when it
\* can, and .* is greedy
FILENAME_RE_captures(file) ==
    LET n == Len(file)
        starts == {s \in 1..n : MatchesAt(file, s)}
    IN  IF starts = {} THEN None
        ELSE LET s == CHOOSE x \in starts : \A y \in starts : x <= y
                 ends == Group1Ends(file, s)
             IN  IF ends # {}
                 THEN LET k == CHOOSE x \in ends : \A y \in ends : y <= x
                      IN  Some(<<Some(SubSeq(file, s, k)), Some(SubSeq(file, k + 1, n - 3))>>)
                 ELSE Some(<<None, Some(SubSeq(file, s, n - 3))>>)

get_file_prefix(file) ==
    LET caps == FILENAME_RE_captures(file)
    IN  IF caps # None
        THEN CASE caps.some[1] # None /\ caps.some[2] # None ->
                    [status |-> "Ok", value |-> <<caps.some[1].some, caps.some[2].some>>]
               [] caps.some[1] = None /\ caps.some[2] # None ->
                    [status |-> "Ok", value |-> <<(<<".", "/">>), caps.some[2].some>>]
               [] OTHER -> [status |-> "Err", err |-> IOError("not found")]
        ELSE [status |-> "Err", err |-> IOError("unsupported filetype")]

Chars == {"a", "/", ".", "p", "y", "\n"}

InitFile ==
    /\ fp_file \in SeqsUpTo(Chars, MaxLen)
    /\ fp_result = NoResult
    /\ ScopeIdle
    /\ LookupIdle
    /\ CompileIdle

\* a call get_file_prefix(fp_file)
GetFilePrefix ==
    /\ fp_result = NoResult
    /\ fp_result' = get_file_prefix(fp_file)
    /\ UNCHANGED fp_file
    /\ UNCHANGED <<scopeVars, lookupVars, compileVars>>

NextFile == GetFilePrefix

SpecFile == InitFile /\ [][NextFile]_vars

FileDone == fp_result # NoResult
Slashes == {i \in 1..Len(fp_file) : fp_file[i] = "/"}
LastSlash == IF Slashes = {} THEN 0 ELSE CHOOSE i \in Slashes : \A j \in Slashes : j <= i
EndsInPy ==
    /\ Len(fp_file) >= 3
    /\ SubSeq(fp_file, Len(fp_file) - 2, Len(fp_file)) = <<".", "p", "y">>
\* the file name, after the last "/", without its extension
Stem == SubSeq(fp_file, LastSlash + 1, Len(fp_file) - 3)

\* C9: get_file_prefix succeeds exactly when the path ends in .py with a
\* non-empty file name before the extension; it then returns the directory
\* part up to and including the last "/" (or "./") and the file name without
\* the extension; every other path is an IOError.
C9_FilePrefix ==
    FileDone
    => IF EndsInPy /\ Len(Stem) > 0
       THEN fp_result =
              [status |-> "Ok",
               value |-> <<IF LastSlash = 0 THEN <<".", "/">>
                           ELSE SubSeq(fp_file, 1, LastSlash), Stem>>]
       ELSE fp_result.status = "Err" /\ fp_result.err.error = "IOError"

(***************************************************************************)
(* The CFG primitives and the instruction generators that mod.rs calls     *)
(* (compiler::cfg, util::gen_imm_num, util::gen_bin_inst).                 *)
(***************************************************************************)
Imm(n) == [operand |-> "Imm", n |-> n]
Reg(k) == [operand |-> "Reg", reg |-> k]

Branch(cond, target, alt) ==
    [inst |-> "Branch", cond |-> cond, target |-> target, alt |-> alt]
Return(return_type, value) ==
    [inst |-> "Return", return_type |-> return_type, value |-> value]
ConstInst(dest, n) == [inst |-> "Const", dest |-> dest, n |-> n]
BinInst(dest, op, lft, rht) ==
    [inst |-> "BinOp", dest |-> dest, op |-> op, lft |-> lft, rht |-> rht]

\* CFG::new(): the entry and the exit block, both empty, and no edge
CFG_new ==
    [entry_block |-> "entry", exit_block |-> "exit",
     blocks |-> [b \in {"entry", "exit"} |-> <<>>],
     edges |-> {}, next_reg |-> 0]

add_inst(cfg, block, inst) == [cfg EXCEPT !.blocks[block] = Append(@, inst)]

connect_blocks(cfg, from, to) == [cfg EXCEPT !.edges = @ \cup {<<from, to>>}]

Lowered(cfg, oper) == [status |-> "Ok", cfg |-> cfg, oper |-> oper]
LoweringPanic == [status |-> "Panic"]

\* a numeric literal: an immediate operand or, in a build that materialises
\* literals, one instruction in the active block that loads it
gen_imm_num(cfg, cur_block, n) ==
    IF imm_inst
    THEN Lowered([add_inst(cfg, cur_block, ConstInst(Reg(cfg.next_reg), n))
                    EXCEPT !.next_reg = @ + 1], Reg(cfg.next_reg))
    ELSE Lowered(cfg, Imm(n))

\* one binary-operation instruction appended to the active block; its result
\* is a new register
gen_bin_inst(cfg, cur_block, op, lft_oper, rht_oper) ==
    Lowered([add_inst(cfg, cur_block, BinInst(Reg(cfg.next_reg), op, lft_oper, rht_oper))
               EXCEPT !.next_reg = @ + 1], Reg(cfg.next_reg))

(***************************************************************************)
(* mod.rs: lowering.                                                       *)
(***************************************************************************)
RECURSIVE compile_expr(_, _, _)
RECURSIVE compile_expr_binop(_, _, _)
RECURSIVE compile_expr_binop_right_first(_, _, _)

\* compile_expr_binop with the operands lowered right to left
compile_expr_binop_right_first(cfg, cur_block, expr) ==
    LET rht == compile_expr(cfg, cur_block, expr.right)
    IN  IF rht.status # "Ok" THEN rht
        ELSE LET lft == compile_expr(rht.cfg, cur_block, expr.left)
             IN  IF lft.status # "Ok" THEN lft
                 ELSE gen_bin_inst(lft.cfg, cur_block, expr.op, lft.oper, rht.oper)

compile_expr_binop(cfg, cur_block, expr) ==
    LET lft == compile_expr(cfg, cur_block, expr.left)
    IN  IF lft.status # "Ok" THEN lft
        ELSE LET rht == compile_expr(lft.cfg, cur_block, expr.right)
             IN  IF rht.status # "Ok" THEN rht
                 ELSE gen_bin_inst(rht.cfg, cur_block, expr.op, lft.oper, rht.oper)

compile_expr(cfg, cur_block, expr) ==
    CASE expr.kind = "BinOp" -> compile_expr_binop(cfg, cur_block, expr)
      [] expr.kind = "Num" -> gen_imm_num(cfg, cur_block, expr.n)
      [] OTHER -> LoweringPanic

\* a statement lowered: the cfg and the block the next statement goes to
LoweredStmt(cfg, cur_block) == [status |-> "Ok", cfg |-> cfg, cur_block |-> cur_block]

\* compile_stmt_expr returning the exit block as the next active block
compile_stmt_expr_to_exit(cfg, cur_block, stmt) ==
    LET reg == compile_expr(cfg, cur_block, stmt.value)
    IN  IF reg.status # "Ok" THEN reg ELSE LoweredStmt(reg.cfg, cfg.exit_block)

compile_stmt_expr(cfg, cur_block, stmt) ==
    LET reg == compile_expr(cfg, cur_block, stmt.value)
    IN  IF reg.status # "Ok" THEN reg ELSE LoweredStmt(reg.cfg, cur_block)

compile_stmt(cfg, cur_block, stmt) ==
    CASE stmt.kind = "Expr" -> compile_stmt_expr(cfg, cur_block, stmt)
      [] OTHER -> LoweringPanic

Function(name, return_type, graph) ==
    [name |-> name, return_type |-> return_type, graph |-> graph]

\* gather_main after its loop, with the test `cur_block != exit_block` inverted
gather_main_finish_inverted(cfg, cur_block) ==
    LET exit_block == cfg.exit_block
        linked == IF cur_block = exit_block
                  THEN add_inst(connect_blocks(cfg, cur_block, exit_block), cur_block,
                                Branch(None, exit_block, None))
                  ELSE cfg
    IN  Function("main", "void", add_inst(linked, exit_block, Return("void", None)))

\* gather_main after its loop: link the active block to the exit block, add
\* the void return, wrap the graph
gather_main_finish(cfg, cur_block) ==
    LET exit_block == cfg.exit_block
        linked == IF cur_block # exit_block
                  THEN add_inst(connect_blocks(cfg, cur_block, exit_block), cur_block,
                                Branch(None, exit_block, None))
                  ELSE cfg
    IN  Function("main", "void", add_inst(linked, exit_block, Return("void", None)))

\* gather_funcs that passes over function definitions
gather_funcs_skipping(ast) == [status |-> "Ok", functions |-> <<>>]

gather_funcs(ast) ==
    IF \E i \in DOMAIN ast : ast[i].kind = "FunctionDef"
    THEN [status |-> "Panic", functions |-> <<>>]
    ELSE [status |-> "Ok", functions |-> <<>>]

(***************************************************************************)
(* The modules that are compiled: up to MaxBody statements of ModulePool.  *)
(***************************************************************************)
Leaves == {Num(1), Num(2), Name("x")}
Flat == {BinOp(l, o, r) : l \in Leaves, o \in {"Add", "Mult"}, r \in Leaves}
Inner == {Num(1), BinOp(Num(1), "Add", Num(2)), BinOp(Num(2), "Mult", Num(1)),
          BinOp(Name("x"), "Add", Num(1))}
Nested == {BinOp(l, "Sub", r) : l \in Inner, r \in Inner}

ModulePool ==
    {Expr(e) : e \in Leaves \cup Flat \cup Nested}
    \cup { FunctionDef("f", <<>>, <<Expr(Num(1))>>),
           ClassDef("K", <<Expr(Num(1))>>),
           Assign(<<Name("x")>>),
           Pass }

InitCompile ==
    /\ c_ast \in SeqsUpTo(ModulePool, MaxBody)
    /\ imm_inst \in BOOLEAN
    /\ pc = "compile"
    /\ gm_ndx = 0
    /\ gm_cfg = None
    /\ gm_cur_block = ""
    /\ c_funcs = <<>>
    /\ c_main = None
    /\ c_program = None
    /\ ScopeIdle
    /\ LookupIdle
    /\ FileIdle

\* compile: let mut funcs = gather_funcs(&ast)
CompileGatherFuncs ==
    /\ pc = "compile"
    /\ LET r == gather_funcs(c_ast)
       IN  /\ pc' = IF r.status = "Ok" THEN "gather_main" ELSE "panic"
           /\ c_funcs' = r.functions
    /\ UNCHANGED <<c_ast, imm_inst, gm_ndx, gm_cfg, gm_cur_block, c_main, c_program>>
    /\ UNCHANGED <<scopeVars, lookupVars, fileVars>>

\* gather_main: the new CFG and the cursor on its entry block
GatherMainEnter ==
    /\ pc = "gather_main"
    /\ gm_cfg' = CFG_new
    /\ gm_cur_block' = CFG_new.entry_block
    /\ gm_ndx' = 1
    /\ pc' = "main_loop"
    /\ UNCHANGED <<c_ast, imm_inst, c_funcs, c_main, c_program>>
    /\ UNCHANGED <<scopeVars, lookupVars, fileVars>>

\* gather_main's loop on a function or class definition
GatherMainSkip ==
    /\ pc = "main_loop"
    /\ gm_ndx <= Len(c_ast)
    /\ c_ast[gm_ndx].kind \in {"FunctionDef", "ClassDef"}
    /\ gm_ndx' = gm_ndx + 1
    /\ UNCHANGED <<c_ast, imm_inst, pc, gm_cfg, gm_cur_block, c_funcs, c_main, c_program>>
    /\ UNCHANGED <<scopeVars, lookupVars, fileVars>>

\* gather_main's loop on any other statement: cur_block = compile_stmt(..)
GatherMainStmt ==
    /\ pc = "main_loop"
    /\ gm_ndx <= Len(c_ast)
    /\ c_ast[gm_ndx].kind \notin {"FunctionDef", "ClassDef"}
    /\ LET r == compile_stmt(gm_cfg, gm_cur_block, c_ast[gm_ndx])
       IN  IF r.status = "Ok"
           THEN /\ gm_cfg' = r.cfg
                /\ gm_cur_block' = r.cur_block
                /\ gm_ndx' = gm_ndx + 1
                /\ pc' = pc
           ELSE /\ gm_cfg' = None
                /\ gm_cur_block' = ""
                /\ gm_ndx' = gm_ndx
                /\ pc' = "panic"
    /\ UNCHANGED <<c_ast, imm_inst, c_funcs, c_main, c_program>>
    /\ UNCHANGED <<scopeVars, lookupVars, fileVars>>

\* gather_main after the loop, up to its return into compile's main
GatherMainReturn ==
    /\ pc = "main_loop"
    /\ gm_ndx > Len(c_ast)
    /\ c_main' = gather_main_finish(gm_cfg, gm_cur_block)
    /\ gm_cfg' = None
    /\ pc' = "insert"
    /\ UNCHANGED <<c_ast, imm_inst, gm_ndx, gm_cur_block, c_funcs, c_program>>
    /\ UNCHANGED <<scopeVars, lookupVars, fileVars>>

\* compile: funcs.insert(0, main); Program { funcs }
CompileReturn ==
    /\ pc = "insert"
    /\ c_funcs' = <<c_main>> \o c_funcs
    /\ c_program' = [funcs |-> <<c_main>> \o c_funcs]
    /\ pc' = "done"
    /\ UNCHANGED <<c_ast, imm_inst, gm_ndx, gm_cfg, gm_cur_block, c_main>>
    /\ UNCHANGED <<scopeVars, lookupVars, fileVars>>

Next ==
    \/ CompileGatherFuncs
    \/ GatherMainEnter
    \/ GatherMainSkip
    \/ GatherMainStmt
    \/ GatherMainReturn
    \/ CompileReturn

Spec == InitCompile /\ [][Next]_vars

(***************************************************************************)
(* Properties of the lowering.                                             *)
(***************************************************************************)
RECURSIVE Supported(_)
\* an expression built from numeric literals and binary operations
Supported(e) ==
    \/ e.kind = "Num"
    \/ e.kind = "BinOp" /\ Supported(e.left) /\ Supported(e.right)

SupportedStmt(st) == st.kind = "Expr" /\ Supported(st.value)
ExprOnly(ss) == \A i \in DOMAIN ss : SupportedStmt(ss[i])
IsDef(st) == st.kind \in {"FunctionDef", "ClassDef"}

\* how compile ended: with a Program, by a panic, with an error value
Outcome ==
    CASE pc = "done" -> "Program"
      [] pc = "panic" -> "Panic"
      [] pc = "error" -> "Err"
      [] OTHER -> "running"

MainReturned == pc \in {"insert", "done"}
EntryOf(g) == g.blocks[g.entry_block]
ExitOf(g) == g.blocks[g.exit_block]

\* C1: for a body of expression-statements over literals and binary operations
\* (the empty body too) gather_main returns the function main of return type
\* void, whose CFG has the edge entry -> exit and whose exit block ends with
\* Return(void, none).
C1_MainOfExprBody ==
    ExprOnly(c_ast)
    => /\ pc # "panic"
       /\ MainReturned =>
            /\ c_main.name = "main"
            /\ c_main.return_type = "void"
            /\ <<c_main.graph.entry_block, c_main.graph.exit_block>> \in c_main.graph.edges
            /\ Len(ExitOf(c_main.graph)) > 0
            /\ ExitOf(c_main.graph)[Len(ExitOf(c_main.graph))] = Return("void", None)

\* gather_main has returned for a body of two expression-statements
C1_Witness ==
    /\ pc = "insert"
    /\ Len(c_ast) = 2
    /\ ExprOnly(c_ast)
    /\ c_ast[1].value.kind = "BinOp"
    /\ c_main.graph.edges = {<<"entry", "exit">>}

RECURSIVE PostOrder(_)
\* the nodes of an expression, left subtree, right subtree, then the node
PostOrder(e) ==
    IF e.kind = "BinOp" THEN PostOrder(e.left) \o PostOrder(e.right) \o <<e>>
    ELSE <<e>>

\* what an instruction says of an operand: the literal, or that it is a register
ChildShape(e) == IF e.kind = "Num" /\ ~imm_inst THEN [imm |-> e.n] ELSE [reg |-> TRUE]
OperShape(oper) == IF oper.operand = "Imm" THEN [imm |-> oper.n] ELSE [reg |-> TRUE]

NodeLabel(e) ==
    IF e.kind = "Num" THEN [inst |-> "Const", n |-> e.n]
    ELSE [inst |-> "BinOp", op |-> e.op, lft |-> ChildShape(e.left),
          rht |-> ChildShape(e.right)]

InstLabel(i) ==
    IF i.inst = "Const" THEN [inst |-> "Const", n |-> i.n]
    ELSE IF i.inst = "BinOp"
         THEN [inst |-> "BinOp", op |-> i.op, lft |-> OperShape(i.lft),
               rht |-> OperShape(i.rht)]
         ELSE [inst |-> i.inst]

\* the nodes of e that emit an instruction, in post-order
ExpectedLabels(e) ==
    LET Emits(n) == n.kind = "BinOp" \/ imm_inst
        nodes == SelectSeq(PostOrder(e), Emits)
    IN  [k \in DOMAIN nodes |-> NodeLabel(nodes[k])]

RECURSIVE ExpectedOfStmts(_, _)
\* the instructions of the first k statements; a definition emits none
ExpectedOfStmts(ss, k) ==
    IF k = 0 THEN <<>>
    ELSE ExpectedOfStmts(ss, k - 1)
         \o (IF ss[k].kind = "Expr" THEN ExpectedLabels(ss[k].value) ELSE <<>>)

\* the statements gather_main's loop has lowered, and the graph they went to
LoweredCount == IF pc = "main_loop" THEN gm_ndx - 1 ELSE Len(c_ast)
Graph == IF pc = "main_loop" THEN gm_cfg ELSE c_main.graph
StatementInsts ==
    LET NotControl(i) == i.inst \notin {"Branch", "Return"}
        insts == SelectSeq(EntryOf(Graph), NotControl)
    IN  [k \in DOMAIN insts |-> InstLabel(insts[k])]

\* C5: a binary operation is lowered left operand first, all of its
\* instructions emitted, then the right operand, then one instruction for the
\* node, into the same block: the block holds the instructions in left-to-right
\* post-order of the expression trees.
C5_LeftToRightPostOrder ==
    pc \in {"main_loop", "insert", "done"}
    => StatementInsts = ExpectedOfStmts(c_ast, LoweredCount)

\* (1 + 2) - (2 * 1) lowered: Add, Mult, Sub
C5_Witness ==
    /\ pc = "done"
    /\ ~imm_inst
    /\ c_ast = <<Expr(BinOp(BinOp(Num(1), "Add", Num(2)), "Sub",
                            BinOp(Num(2), "Mult", Num(1))))>>
    /\ Len(EntryOf(c_main.graph)) = 4
    /\ EntryOf(c_main.graph)[1].op = "Add"
    /\ EntryOf(c_main.graph)[2].op = "Mult"
    /\ EntryOf(c_main.graph)[3].op = "Sub"

HasFunctionDef == \E i \in DOMAIN c_ast : c_ast[i].kind = "FunctionDef"
DefsAndExprs == \A i \in DOMAIN c_ast : IsDef(c_ast[i]) \/ SupportedStmt(c_ast[i])
OnlyMain ==
    /\ c_program # None
    /\ Len(c_program.funcs) = 1
    /\ c_program.funcs[1].name = "main"
    /\ c_program.funcs[1].return_type = "void"

\* C6 as claimed: for a module of function definitions, class definitions and
\* supported expression-statements compile returns a Program that holds
\* exactly the function main, of return type void, at index 0.
C6_DefsSkipped ==
    (Outcome # "running" /\ DefsAndExprs) => (Outcome = "Program" /\ OnlyMain)

\* C6, amended: that holds for a module of class definitions and supported
\* expression-statements; with a function definition at top level gather_funcs
\* panics and compile returns no Program.
C6_ClassDefsSkipped ==
    (Outcome # "running" /\ DefsAndExprs)
    => IF HasFunctionDef THEN Outcome = "Panic" /\ c_program = None
       ELSE Outcome = "Program" /\ OnlyMain

\* a class definition and an expression-statement compiled to the Program of main
C6_Witness ==
    /\ Outcome = "Program"
    /\ OnlyMain
    /\ Len(c_ast) = 2
    /\ c_ast[1].kind = "ClassDef"
    /\ SupportedStmt(c_ast[2])

\* the statements lowering reaches and does not support
HasUnsupported ==
    \E i \in DOMAIN c_ast : ~IsDef(c_ast[i]) /\ ~SupportedStmt(c_ast[i])

\* C7: on an unsupported statement or expression lowering fails with a failure
\* the caller can observe, without crashing the process, and no Program or
\* partial CFG is returned.
C7_UnsupportedFailsCleanly ==
    (Outcome # "running" /\ ~HasFunctionDef /\ HasUnsupported)
    => (Outcome = "Err" /\ c_program = None)

RECURSIVE InstCount(_)
\* the instructions an expression emits
InstCount(e) ==
    IF e.kind = "BinOp" THEN InstCount(e.left) + InstCount(e.right) + 1
    ELSE IF imm_inst THEN 1 ELSE 0

RECURSIVE InstCountOf(_, _)
InstCountOf(ss, k) ==
    IF k = 0 THEN 0 ELSE InstCountOf(ss, k - 1) + InstCount(ss[k].value)

\* C10: while gather_main lowers supported expression-statements the cursor
\* stays on the entry block, every instruction goes to the entry block and no
\* block or edge is made; in the finished CFG the entry block ends with the
\* unconditional Branch to exit, after the statements' instructions, the only
\* edge is entry -> exit and the exit block holds the Return alone.
C10_StraightLine ==
    /\ (pc = "main_loop" /\ ExprOnly(SubSeq(c_ast, 1, gm_ndx - 1)))
       => /\ gm_cur_block = gm_cfg.entry_block
          /\ DOMAIN gm_cfg.blocks = {gm_cfg.entry_block, gm_cfg.exit_block}
          /\ gm_cfg.edges = {}
          /\ ExitOf(gm_cfg) = <<>>
          /\ Len(EntryOf(gm_cfg)) = InstCountOf(c_ast, gm_ndx - 1)
          /\ \A k \in DOMAIN EntryOf(gm_cfg) :
                EntryOf(gm_cfg)[k].inst \in {"Const", "BinOp"}
    /\ (MainReturned /\ ExprOnly(c_ast))
       => LET g == c_main.graph
              n == Len(EntryOf(g))
          IN  /\ DOMAIN g.blocks = {g.entry_block, g.exit_block}
              /\ n = InstCountOf(c_ast, Len(c_ast)) + 1
              /\ EntryOf(g)[n] = Branch(None, g.exit_block, None)
              /\ \A k \in 1..(n - 1) : EntryOf(g)[k].inst \in {"Const", "BinOp"}
              /\ g.edges = {<<g.entry_block, g.exit_block>>}
              /\ ExitOf(g) = <<Return("void", None)>>

\* two statements lowered, with instructions, and the loop still running
C10_Witness ==
    /\ pc = "main_loop"
    /\ gm_ndx = 3
    /\ ExprOnly(c_ast)
    /\ gm_cur_block = "entry"
    /\ Len(EntryOf(gm_cfg)) >= 2

====
